---- MODULE Spec2Model ----
(***************************************************************************)
(* NovaRetail dashboard (src/app.py): one run of the script, from page     *)
(* configuration to the filtered-data table.  Text is modelled as          *)
(* sequences of one-character strings, cells as tagged records.            *)
(***************************************************************************)
EXTENDS Integers, Sequences, FiniteSets, TLC

\* ------------------------------------------------------------------ bounds
\* Largest number of data rows in the spreadsheet.
MaxRows == 2

\* ------------------------------------------------------------------ state
VARIABLES
    file,             \* the spreadsheet on disk: exists, columns, rows
    pc,               \* the block of the script that runs next
    ui,               \* the elements rendered so far, in order
    columns,          \* df.columns
    df,               \* the data frame
    missing_fields,   \* required_fields - set(df.columns)
    options,          \* the option list of each multiselect
    segments,         \* the four selections
    regions,
    categories,
    channels,
    filtered_df,
    total_revenue,
    unique_customers,
    avg_satisfaction,
    segment_revenue,
    region_revenue,
    sat_rev,
    table             \* the frame handed to st.dataframe

vars ==
    <<file, pc, ui, columns, df, missing_fields, options, segments, regions,
      categories, channels, filtered_df, total_revenue, unique_customers,
      avg_satisfaction, segment_revenue, region_revenue, sat_rev, table>>

\* ------------------------------------------------------------------ text
\* The characters of the model, in code-point order.
CodeOrder ==
    <<" ","0","1","2","3","4","5","6","7","8","9",
      "A","B","C","D","E","F","G","H","I","J","K","L","M",
      "N","O","P","Q","R","S","T","U","V","W","X","Y","Z","_",
      "a","b","c","d","e","f","g","h","i","j","k","l","m",
      "n","o","p","q","r","s","t","u","v","w","x","y","z">>

LowerLetters ==
    <<"a","b","c","d","e","f","g","h","i","j","k","l","m",
      "n","o","p","q","r","s","t","u","v","w","x","y","z">>

UpperLetters ==
    <<"A","B","C","D","E","F","G","H","I","J","K","L","M",
      "N","O","P","Q","R","S","T","U","V","W","X","Y","Z">>

Digits ==
    <<"0","1","2","3","4","5","6","7","8","9">>

Ord(c) ==
    CHOOSE i \in 1..Len(CodeOrder) : CodeOrder[i] = c

\* Python's < on str: lexicographic by code point, a proper prefix first.
RECURSIVE StrLess(_, _)
StrLess(a, b) ==
    IF b = <<>> THEN FALSE
    ELSE IF a = <<>> THEN TRUE
    ELSE IF Head(a) = Head(b) THEN StrLess(Tail(a), Tail(b))
    ELSE Ord(Head(a)) < Ord(Head(b))

IsSpace(c) ==
    c = " "

LowerChar(c) ==
    IF \E i \in 1..Len(UpperLetters) : UpperLetters[i] = c
    THEN LowerLetters[CHOOSE i \in 1..Len(UpperLetters) : UpperLetters[i] = c]
    ELSE c

UpperChar(c) ==
    IF \E i \in 1..Len(LowerLetters) : LowerLetters[i] = c
    THEN UpperLetters[CHOOSE i \in 1..Len(LowerLetters) : LowerLetters[i] = c]
    ELSE c

RECURSIVE LStrip(_)
LStrip(s) ==
    IF s # <<>> /\ IsSpace(Head(s)) THEN LStrip(Tail(s)) ELSE s

RECURSIVE RStrip(_)
RStrip(s) ==
    IF s # <<>> /\ IsSpace(s[Len(s)]) THEN RStrip(SubSeq(s, 1, Len(s) - 1)) ELSE s

\* str.strip()
Strip(s) ==
    RStrip(LStrip(s))

\* str.lower()
Lower(s) ==
    [i \in 1..Len(s) |-> LowerChar(s[i])]

\* str.replace(" ", "_")
ReplaceSpace(s) ==
    [i \in 1..Len(s) |-> IF s[i] = " " THEN "_" ELSE s[i]]

\* A plausible slip: .str.lower() left out of the chain.
NormalizeNameNoLower(s) ==
    ReplaceSpace(Strip(s))

\* One column name through .str.strip().str.lower().str.replace(" ", "_").
NormalizeName(s) ==
    ReplaceSpace(Lower(Strip(s)))

\* df.columns after normalization.
NormalizeColumns(cols) ==
    [i \in 1..Len(cols) |-> NormalizeName(cols[i])]

\* ------------------------------------------------------------------ schema
F_label ==
    <<"l","a","b","e","l">>
F_customerid ==
    <<"c","u","s","t","o","m","e","r","i","d">>
F_transactionid ==
    <<"t","r","a","n","s","a","c","t","i","o","n","i","d">>
F_transactiondate ==
    <<"t","r","a","n","s","a","c","t","i","o","n","d","a","t","e">>
F_productcategory ==
    <<"p","r","o","d","u","c","t","c","a","t","e","g","o","r","y">>
F_purchaseamount ==
    <<"p","u","r","c","h","a","s","e","a","m","o","u","n","t">>
F_customeragegroup ==
    <<"c","u","s","t","o","m","e","r","a","g","e","g","r","o","u","p">>
F_customergender ==
    <<"c","u","s","t","o","m","e","r","g","e","n","d","e","r">>
F_customerregion ==
    <<"c","u","s","t","o","m","e","r","r","e","g","i","o","n">>
F_customersatisfaction ==
    <<"c","u","s","t","o","m","e","r","s","a","t","i","s","f","a","c","t","i","o","n">>
F_retailchannel ==
    <<"r","e","t","a","i","l","c","h","a","n","n","e","l">>

required_fields ==
    { F_label, F_customerid, F_transactionid, F_transactiondate,
      F_productcategory, F_purchaseamount, F_customeragegroup,
      F_customergender, F_customerregion, F_customersatisfaction,
      F_retailchannel }

\* set(df.columns)
ColumnSet(cols) ==
    {cols[i] : i \in 1..Len(cols)}

\* required_fields - set(df.columns)
MissingFields(cols) ==
    required_fields \ ColumnSet(cols)

\* sorted(list(names)) for a set of str.
RECURSIVE SortedNames(_)
SortedNames(S) ==
    IF S = {} THEN <<>>
    ELSE LET m == CHOOSE x \in S : \A y \in S \ {x} : StrLess(x, y)
         IN  <<m>> \o SortedNames(S \ {m})

\* ------------------------------------------------------------------ cells
\* A spreadsheet cell: empty (NaN / NaT), a number, a text or a timestamp.
Null ==
    [t |-> "null", n |-> 0, s |-> <<>>]

Num(n) ==
    [t |-> "num", n |-> n, s |-> <<>>]

Str(s) ==
    [t |-> "str", n |-> 0, s |-> s]

Date(n) ==
    [t |-> "date", n |-> n, s |-> <<>>]

IsNull(c) ==
    c.t = "null"

IsDigit(c) ==
    \E i \in 1..Len(Digits) : Digits[i] = c

DigitVal(c) ==
    (CHOOSE i \in 1..Len(Digits) : Digits[i] = c) - 1

AllDigits(s) ==
    s # <<>> /\ \A i \in 1..Len(s) : IsDigit(s[i])

RECURSIVE ParseInt(_)
ParseInt(s) ==
    IF s = <<>> THEN 0
    ELSE 10 * ParseInt(SubSeq(s, 1, Len(s) - 1)) + DigitVal(s[Len(s)])

\* pd.to_numeric(errors="coerce") on one cell: a number stays, a text of
\* digits is parsed, any other text becomes NaN, an empty cell stays empty.
ToNumericCell(c) ==
    CASE c.t = "num" -> c
      [] c.t = "null" -> Null
      [] c.t = "str" -> IF AllDigits(c.s) THEN Num(ParseInt(c.s)) ELSE Null

\* pd.to_datetime(errors="coerce") on one cell: a timestamp stays, a text of
\* four digits is read as that year, any other text of the model's alphabet
\* becomes NaT, an empty cell stays empty.
ToDatetimeCell(c) ==
    CASE c.t = "date" -> c
      [] c.t = "null" -> Null
      [] c.t = "str" ->
           IF AllDigits(c.s) /\ Len(c.s) = 4 THEN Date(ParseInt(c.s)) ELSE Null

\* ------------------------------------------------------------------ frames
\* A data frame is a sequence of rows; a row maps column names to cells and
\* carries its index label idx.
Column(rows, col) ==
    [i \in 1..Len(rows) |-> rows[i][col]]

Range(s) ==
    {s[i] : i \in 1..Len(s)}

\* pd.read_excel: rows get the index labels 0, 1, 2, ...
WithIndex(rows) ==
    [i \in 1..Len(rows) |-> [rows[i] EXCEPT !.idx = i - 1]]

\* The three coercions of the data-cleaning block.
CoerceRow(r) ==
    [r EXCEPT !.purchaseamount = ToNumericCell(r.purchaseamount),
              !.customersatisfaction = ToNumericCell(r.customersatisfaction),
              !.transactiondate = ToDatetimeCell(r.transactiondate)]

Coerce(rows) ==
    [i \in 1..Len(rows) |-> CoerceRow(rows[i])]

\* A plausible slip: dropna() without subset= drops a row with any empty cell.
DropNaAny(rows) ==
    SelectSeq(rows, LAMBDA r :
        /\ ~IsNull(r.purchaseamount)
        /\ ~IsNull(r.customersatisfaction)
        /\ ~IsNull(r.transactiondate)
        /\ ~IsNull(r.label)
        /\ ~IsNull(r.customerregion)
        /\ ~IsNull(r.productcategory)
        /\ ~IsNull(r.retailchannel)
        /\ ~IsNull(r.customerid))

\* df.dropna(subset=["purchaseamount"])
DropNa(rows) ==
    SelectSeq(rows, LAMBDA r : ~IsNull(r.purchaseamount))

\* Series.unique(): the distinct cells in order of first appearance, the
\* empty cell included.
RECURSIVE Unique(_)
Unique(s) ==
    IF s = <<>> THEN <<>>
    ELSE LET r == Unique(SubSeq(s, 1, Len(s) - 1))
         IN  IF s[Len(s)] \in Range(r) THEN r ELSE Append(r, s[Len(s)])

\* Python's < on two cells of one type (NaN compares false with everything).
CellLess(a, b) ==
    CASE a.t = "str" /\ b.t = "str" -> StrLess(a.s, b.s)
      [] a.t = "num" /\ b.t = "num" -> a.n < b.n
      [] OTHER -> FALSE

\* sorted() raises TypeError when it has to compare a str with a float
\* (an empty cell is the float NaN).
SortedRaises(s) ==
    \E i, j \in 1..Len(s) : s[i].t = "str" /\ s[j].t # "str"

RECURSIVE InsertSorted(_, _)
InsertSorted(x, s) ==
    IF s = <<>> THEN <<x>>
    ELSE IF CellLess(x, Head(s)) THEN <<x>> \o s
    ELSE <<Head(s)>> \o InsertSorted(x, Tail(s))

\* sorted(values), stable.
RECURSIVE Sorted(_)
Sorted(s) ==
    IF s = <<>> THEN <<>>
    ELSE InsertSorted(s[Len(s)], Sorted(SubSeq(s, 1, Len(s) - 1)))

ALL ==
    Str(<<"A","l","l">>)

\* The option list multiselect_all hands to st.sidebar.multiselect.
multiselect_all(values) ==
    <<ALL>> \o Sorted(values)

\* ------------------------------------------------------------------ filters
\* A plausible slip: DataFrame.where(mask) keeps every row and blanks the
\* cells of the rows that do not match.
BlankRow(r) ==
    [r EXCEPT !.label = Null, !.customerregion = Null, !.productcategory = Null,
              !.retailchannel = Null, !.purchaseamount = Null,
              !.customersatisfaction = Null, !.transactiondate = Null,
              !.customerid = Null]

IsInWhere(rows, col, selected) ==
    [i \in 1..Len(rows) |->
        IF rows[i][col] \in selected THEN rows[i] ELSE BlankRow(rows[i])]

\* rows[rows[col].isin(selected)]: the rows whose cell is one of the selected
\* values (isin matches an empty cell with a selected NaN), in their order.
IsIn(rows, col, selected) ==
    SelectSeq(rows, LAMBDA r : r[col] \in selected)

\* A plausible slip: the test  selected == ["All"]  instead of  "All" in selected.
RestrictsUnlessOnlyAll(selected) ==
    selected # {ALL}

\* A plausible slip: an empty selection read as "no restriction".
RestrictsUnlessEmpty(selected) ==
    selected # {} /\ ALL \notin selected

\* "All" not in selected
Restricts(selected) ==
    ALL \notin selected

\* A plausible slip: the mask applied to df instead of filtered_df.
ApplyFilterToDf(rows, col, selected) ==
    IF Restricts(selected) THEN IsIn(df, col, selected) ELSE rows

\* One  if "All" not in ...: filtered_df = filtered_df[...isin(...)]  block.
ApplyFilter(rows, col, selected) ==
    IF Restricts(selected) THEN IsIn(rows, col, selected) ELSE rows

\* The filter dimensions in the order of the script.
DimOrder ==
    <<"label", "customerregion", "productcategory", "retailchannel">>

\* The filter blocks applied in the order given; selections maps a dimension
\* to its selection.
RECURSIVE ApplyFilters(_, _, _)
ApplyFilters(rows, order, selections) ==
    IF order = <<>> THEN rows
    ELSE ApplyFilters(ApplyFilter(rows, Head(order), selections[Head(order)]),
                      Tail(order), selections)

\* ------------------------------------------------------------------ aggregation
\* Series.sum(): empty cells are skipped.
RECURSIVE SumColumn(_, _)
SumColumn(rows, col) ==
    IF rows = <<>> THEN 0
    ELSE (IF IsNull(Head(rows)[col]) THEN 0 ELSE Head(rows)[col].n)
         + SumColumn(Tail(rows), col)

\* Series.mean() as the pair it divides: the sum and the count of the
\* non-empty cells (NaN when the count is 0).
MeanColumn(rows, col) ==
    [sum |-> SumColumn(rows, col),
     count |-> Len(SelectSeq(rows, LAMBDA r : ~IsNull(r[col])))]

\* Series.nunique(): the number of distinct non-empty cells.
NUnique(rows, col) ==
    Cardinality({c \in Range(Column(rows, col)) : ~IsNull(c)})

NonNull(s) ==
    SelectSeq(s, LAMBDA c : ~IsNull(c))

\* A plausible slip: groupby(..., sort=False) keeps the keys in order of
\* first appearance.
GroupKeysUnsorted(rows, col) ==
    NonNull(Unique(Column(rows, col)))

\* The group keys of groupby(col): dropna=True leaves the empty cell out,
\* sort=True orders the keys.
GroupKeys(rows, col) ==
    Sorted(NonNull(Unique(Column(rows, col))))

Group(rows, col, key) ==
    SelectSeq(rows, LAMBDA r : r[col] = key)

\* groupby(col, as_index=False)["purchaseamount"].sum()
GroupSum(rows, col) ==
    LET keys == GroupKeys(rows, col)
    IN  [i \in 1..Len(keys) |->
            [key |-> keys[i],
             purchaseamount |-> SumColumn(Group(rows, col, keys[i]), "purchaseamount")]]

RECURSIVE InsertByKey(_, _)
InsertByKey(x, s) ==
    IF s = <<>> THEN <<x>>
    ELSE IF CellLess(x.key, Head(s).key) THEN <<x>> \o s
    ELSE <<Head(s)>> \o InsertByKey(x, Tail(s))

\* .sort_values(key column)
RECURSIVE SortValues(_)
SortValues(s) ==
    IF s = <<>> THEN <<>>
    ELSE InsertByKey(s[Len(s)], SortValues(SubSeq(s, 1, Len(s) - 1)))

\* groupby("label", as_index=False).agg(avg_satisfaction=..., total_revenue=...)
GroupAgg(rows, col) ==
    LET keys == GroupKeys(rows, col)
    IN  [i \in 1..Len(keys) |->
            [key |-> keys[i],
             avg_satisfaction |-> MeanColumn(Group(rows, col, keys[i]), "customersatisfaction"),
             total_revenue |-> SumColumn(Group(rows, col, keys[i]), "purchaseamount")]]

\* filtered_df.reset_index(drop=True)
ResetIndex(rows) ==
    [i \in 1..Len(rows) |-> [rows[i] EXCEPT !.idx = i - 1]]

\* ------------------------------------------------------------------ inputs
Row(l, r, c, ch, amount, sat, date, cid) ==
    [idx |-> 0, label |-> l, customerregion |-> r, productcategory |-> c,
     retailchannel |-> ch, purchaseamount |-> amount,
     customersatisfaction |-> sat, transactiondate |-> date, customerid |-> cid]

\* Rows that differ in the filter dimensions: two segments, two regions, a
\* channel really called "All", empty segment cells, a malformed amount.
DimRows ==
    { Row(Str(<<"A">>), Str(<<"N">>), Str(<<"C">>), Str(<<"W">>), Num(1), Num(4), Date(1), Num(7)),
      Row(Str(<<"B">>), Str(<<"S">>), Str(<<"C">>), Str(<<"W">>), Num(2), Null, Date(1), Num(8)),
      Row(Str(<<"A">>), Str(<<"S">>), Str(<<"C">>), ALL, Num(2), Num(2), Date(2), Num(7)),
      Row(Null, Str(<<"N">>), Str(<<"C">>), Str(<<"W">>), Num(1), Num(5), Date(2), Num(9)),
      Row(Null, Str(<<"S">>), Str(<<"C">>), Str(<<"W">>), Num(2), Null, Date(2), Num(7)),
      Row(Str(<<"B">>), Str(<<"N">>), Str(<<"C">>), Str(<<"W">>), Str(<<"x">>), Num(1), Date(1), Num(8)) }

\* Rows that differ in the coerced cells.
CleanRows ==
    { Row(Str(<<"A">>), Str(<<"N">>), Str(<<"C">>), Str(<<"W">>), Num(1), Num(3), Date(1), Num(7)),
      Row(Str(<<"A">>), Str(<<"N">>), Str(<<"C">>), Str(<<"W">>), Str(<<"1","2">>), Str(<<"x">>), Str(<<"2","0","2","0">>), Num(7)),
      Row(Str(<<"A">>), Str(<<"N">>), Str(<<"C">>), Str(<<"W">>), Str(<<"x">>), Num(3), Date(1), Num(8)),
      Row(Str(<<"A">>), Str(<<"N">>), Str(<<"C">>), Str(<<"W">>), Null, Str(<<"5">>), Str(<<"x">>), Num(8)),
      Row(Str(<<"A">>), Str(<<"N">>), Str(<<"C">>), Str(<<"W">>), Num(2), Null, Str(<<"x">>), Null) }

\* Every sheet of at most MaxRows rows over a pool of rows.
Sheets(pool) ==
    UNION {[1..n -> pool] : n \in 0..MaxRows}

\* The required columns in the order of the sheet.
RequiredSeq ==
    << F_label, F_customerid, F_transactionid, F_transactiondate,
       F_productcategory, F_purchaseamount, F_customeragegroup,
       F_customergender, F_customerregion, F_customersatisfaction,
       F_retailchannel >>

Upper(s) ==
    [i \in 1..Len(s) |-> UpperChar(s[i])]

\* How a sheet may spell a column name.
Styles ==
    {"exact", "upper", "padded", "title", "spaced"}

Spell(s, style, i) ==
    CASE style = "exact" -> s
      [] style = "upper" -> Upper(s)
      [] style = "padded" -> <<" ", " ">> \o s \o <<" ">>
      [] style = "title" -> <<" ", UpperChar(Head(s))>> \o Tail(s)
      [] style = "spaced" -> IF i = 1 THEN <<Head(s), " ">> \o Tail(s) ELSE s

\* The header row of a sheet that lacks the columns in absent and spells
\* the others in the given style.
Header(absent, style) ==
    LET present == SelectSeq(RequiredSeq, LAMBDA f : f \notin absent)
    IN  [i \in 1..Len(present) |-> Spell(present[i], style, i)]

AllHeaders ==
    {Header(absent, style) : absent \in SUBSET required_fields, style \in Styles}

FewHeaders ==
    {Header({}, "exact"), Header({F_customergender}, "exact")}

NoFile ==
    [exists |-> FALSE, columns |-> <<>>, rows |-> <<>>]

Files(headers, sheets) ==
    {NoFile} \cup [exists : {TRUE}, columns : headers, rows : sheets]

\* ------------------------------------------------------------------ the run
\* A rendered element; detail carries the list an error message shows.
UI(kind, detail) ==
    [kind |-> kind, detail |-> detail]

NoOptions ==
    [d \in Range(DimOrder) |-> <<>>]

NoMean ==
    [sum |-> 0, count |-> 0]

InitWith(files) ==
    /\ file \in files
    /\ pc = "page_config"
    /\ ui = <<>>
    /\ columns = <<>>
    /\ df = <<>>
    /\ missing_fields = {}
    /\ options = NoOptions
    /\ segments = {}
    /\ regions = {}
    /\ categories = {}
    /\ channels = {}
    /\ filtered_df = <<>>
    /\ total_revenue = 0
    /\ unique_customers = 0
    /\ avg_satisfaction = NoMean
    /\ segment_revenue = <<>>
    /\ region_revenue = <<>>
    /\ sat_rev = <<>>
    /\ table = <<>>

Init ==
    InitWith(Files(FewHeaders, Sheets(DimRows)))

InitClean ==
    InitWith(Files(FewHeaders, Sheets(CleanRows)))

\* One sheet under every header: a row that stays and a row that is dropped.
SchemaSheet ==
    << Row(Str(<<"A">>), Str(<<"N">>), Str(<<"C">>), Str(<<"W">>), Num(1), Num(3), Date(1), Num(7)),
       Row(Str(<<"B">>), Str(<<"N">>), Str(<<"C">>), Str(<<"W">>), Str(<<"x">>), Num(3), Date(1), Num(8)) >>

InitSchema ==
    InitWith(Files(AllHeaders, {SchemaSheet}))

selection_vars ==
    <<segments, regions, categories, channels>>

result_vars ==
    <<filtered_df, total_revenue, unique_customers, avg_satisfaction,
      segment_revenue, region_revenue, sat_rev, table>>

\* st.title, st.subheader
PageConfig ==
    /\ pc = "page_config"
    /\ ui' = ui \o <<UI("title", <<>>), UI("subheader", <<>>)>>
    /\ pc' = "load"
    /\ UNCHANGED <<file, columns, df, missing_fields, options, selection_vars, result_vars>>

\* try: df = pd.read_excel(...)  except FileNotFoundError: st.error; st.stop
LoadData ==
    /\ pc = "load"
    /\ IF file.exists
       THEN /\ df' = WithIndex(file.rows)
            /\ columns' = file.columns
            /\ pc' = "normalize"
            /\ ui' = ui
       ELSE /\ ui' = Append(ui, UI("error_file_not_found", <<>>))
            /\ pc' = "stopped"
            /\ UNCHANGED <<df, columns>>
    /\ UNCHANGED <<file, missing_fields, options, selection_vars, result_vars>>

NormalizeColumnNames ==
    /\ pc = "normalize"
    /\ columns' = NormalizeColumns(columns)
    /\ pc' = "schema"
    /\ UNCHANGED <<file, ui, df, missing_fields, options, selection_vars, result_vars>>

\* st.stop() after the schema error.
AfterSchemaError ==
    "stopped"

CheckRequiredFields ==
    /\ pc = "schema"
    /\ missing_fields' = MissingFields(columns)
    /\ IF missing_fields' # {}
       THEN /\ ui' = ui \o <<UI("error_missing_fields", SortedNames(missing_fields')),
                             UI("write_columns", columns)>>
            /\ pc' = AfterSchemaError
       ELSE /\ ui' = ui
            /\ pc' = "clean"
    /\ UNCHANGED <<file, columns, df, options, selection_vars, result_vars>>

\* The three coercions, then dropna(subset=["purchaseamount"]).
DataCleaning ==
    /\ pc = "clean"
    /\ df' = DropNa(Coerce(df))
    /\ pc' = "sidebar"
    /\ UNCHANGED <<file, ui, columns, missing_fields, options, selection_vars, result_vars>>

SidebarHeader ==
    /\ pc = "sidebar"
    /\ ui' = Append(ui, UI("sidebar_header", <<>>))
    /\ pc' = "label"
    /\ UNCHANGED <<file, columns, df, missing_fields, options, selection_vars, result_vars>>

\* multiselect_all(label, df[dim].unique()): sorted(values) may raise; the
\* widget returns whatever part of the options the user has chosen.
Multiselect(dim, chosen, next) ==
    /\ pc = dim
    /\ LET values == Unique(Column(df, dim))
       IN  IF SortedRaises(values)
           THEN /\ pc' = "crashed"
                /\ UNCHANGED <<ui, options>>
           ELSE /\ options' = [options EXCEPT ![dim] = multiselect_all(values)]
                /\ ui' = Append(ui, UI("multiselect", <<dim>>))
                /\ pc' = next
    /\ IF pc' = "crashed" THEN chosen = {} ELSE chosen \in SUBSET Range(options'[dim])
    /\ UNCHANGED <<file, columns, df, missing_fields, result_vars>>

SelectSegments ==
    /\ \E chosen \in SUBSET ({ALL} \cup Range(Column(df, "label"))) :
          /\ Multiselect("label", chosen, "customerregion")
          /\ segments' = chosen
    /\ UNCHANGED <<regions, categories, channels>>

SelectRegions ==
    /\ \E chosen \in SUBSET ({ALL} \cup Range(Column(df, "customerregion"))) :
          /\ Multiselect("customerregion", chosen, "productcategory")
          /\ regions' = chosen
    /\ UNCHANGED <<segments, categories, channels>>

SelectCategories ==
    /\ \E chosen \in SUBSET ({ALL} \cup Range(Column(df, "productcategory"))) :
          /\ Multiselect("productcategory", chosen, "retailchannel")
          /\ categories' = chosen
    /\ UNCHANGED <<segments, regions, channels>>

SelectChannels ==
    /\ \E chosen \in SUBSET ({ALL} \cup Range(Column(df, "retailchannel"))) :
          /\ Multiselect("retailchannel", chosen, "filter")
          /\ channels' = chosen
    /\ UNCHANGED <<segments, regions, categories>>

Selections ==
    [label |-> segments, customerregion |-> regions,
     productcategory |-> categories, retailchannel |-> channels]

\* filtered_df = df.copy(), then the four filter blocks in script order.
FilteringLogic ==
    /\ pc = "filter"
    /\ filtered_df' = ApplyFilters(df, DimOrder, Selections)
    /\ pc' = "empty_check"
    /\ UNCHANGED <<file, ui, columns, df, missing_fields, options, selection_vars,
                   total_revenue, unique_customers, avg_satisfaction,
                   segment_revenue, region_revenue, sat_rev, table>>

\* A plausible slip: st.stop() left out after the warning.
AfterWarningNoStop ==
    "kpis"

\* st.stop() after the warning.
AfterWarning ==
    "stopped"

\* if filtered_df.empty: st.warning; st.stop
CheckEmpty ==
    /\ pc = "empty_check"
    /\ IF filtered_df = <<>>
       THEN /\ ui' = Append(ui, UI("warning_no_data", <<>>))
            /\ pc' = AfterWarning
       ELSE /\ ui' = ui
            /\ pc' = "kpis"
    /\ UNCHANGED <<file, columns, df, missing_fields, options, selection_vars, result_vars>>

KPIs ==
    /\ pc = "kpis"
    /\ total_revenue' = SumColumn(filtered_df, "purchaseamount")
    /\ unique_customers' = NUnique(filtered_df, "customerid")
    /\ avg_satisfaction' = MeanColumn(filtered_df, "customersatisfaction")
    /\ ui' = ui \o <<UI("metric_total_revenue", <<>>), UI("metric_unique_customers", <<>>),
                     UI("metric_avg_satisfaction", <<>>)>>
    /\ pc' = "charts"
    /\ UNCHANGED <<file, columns, df, missing_fields, options, selection_vars,
                   filtered_df, segment_revenue, region_revenue, sat_rev, table>>

\* Revenue by segment and revenue by region.
Charts ==
    /\ pc = "charts"
    /\ segment_revenue' = SortValues(GroupSum(filtered_df, "label"))
    /\ region_revenue' = SortValues(GroupSum(filtered_df, "customerregion"))
    /\ ui' = ui \o <<UI("chart_segment", <<>>), UI("chart_region", <<>>)>>
    /\ pc' = "scatter"
    /\ UNCHANGED <<file, columns, df, missing_fields, options, selection_vars,
                   filtered_df, total_revenue, unique_customers, avg_satisfaction,
                   sat_rev, table>>

\* Satisfaction against revenue.
Scatter ==
    /\ pc = "scatter"
    /\ sat_rev' = GroupAgg(filtered_df, "label")
    /\ ui' = ui \o <<UI("subheader", <<>>), UI("chart_scatter", <<>>)>>
    /\ pc' = "table"
    /\ UNCHANGED <<file, columns, df, missing_fields, options, selection_vars,
                   filtered_df, total_revenue, unique_customers, avg_satisfaction,
                   segment_revenue, region_revenue, table>>

\* The filtered rows as a table.
DataTable ==
    /\ pc = "table"
    /\ table' = ResetIndex(filtered_df)
    /\ ui' = ui \o <<UI("subheader", <<>>), UI("dataframe", <<>>)>>
    /\ pc' = "done"
    /\ UNCHANGED <<file, columns, df, missing_fields, options, selection_vars,
                   filtered_df, total_revenue, unique_customers, avg_satisfaction,
                   segment_revenue, region_revenue, sat_rev>>

Next ==
    \/ PageConfig
    \/ LoadData
    \/ NormalizeColumnNames
    \/ CheckRequiredFields
    \/ DataCleaning
    \/ SidebarHeader
    \/ SelectSegments
    \/ SelectRegions
    \/ SelectCategories
    \/ SelectChannels
    \/ FilteringLogic
    \/ CheckEmpty
    \/ KPIs
    \/ Charts
    \/ Scatter
    \/ DataTable

Spec ==
    Init /\ [][Next]_vars

SpecClean ==
    InitClean /\ [][Next]_vars

SpecSchema ==
    InitSchema /\ [][Next]_vars

\* ------------------------------------------------------------------ properties
\* The blocks after the filtering logic.
Rendering ==
    {"kpis", "charts", "scatter", "table", "done"}

Shown(kind) ==
    \E i \in 1..Len(ui) : ui[i].kind = kind

\* filtered_df holds the result of the filtering logic.
HasFiltered ==
    pc \in Rendering \cup {"empty_check"} \/ Shown("warning_no_data")

Orders ==
    {o \in [1..Len(DimOrder) -> Range(DimOrder)] : \A i, j \in 1..Len(DimOrder) : o[i] = o[j] => i = j}

\* C1: the filtered dataset holds only rows of the cleaned dataset, each with
\* every cell as it is there, none twice, in the order of the dataset.
FilteredIsSubset ==
    HasFiltered =>
        /\ \A i \in 1..Len(filtered_df) : filtered_df[i] \in Range(df)
        /\ \A i, j \in 1..Len(filtered_df) : i < j => filtered_df[i].idx < filtered_df[j].idx

FilteredIsProperSubset ==
    /\ pc = "done"
    /\ Len(filtered_df) > 0
    /\ Len(filtered_df) < Len(df)

\* C2: the four filter blocks applied in any order of the dimensions give the
\* rows the filtering logic has just computed in the script's order.
FiltersCommute ==
    pc = "empty_check" => \A o \in Orders : ApplyFilters(df, o, Selections) = filtered_df

TwoFiltersRestrict ==
    /\ pc = "empty_check"
    /\ Restricts(segments)
    /\ Restricts(regions)
    /\ IsIn(df, "label", segments) # IsIn(df, "customerregion", regions)
    /\ filtered_df # IsIn(df, "label", segments)
    /\ filtered_df # IsIn(df, "customerregion", regions)

\* C3: a selection that holds "All", alone or with other values, does not
\* restrict its dimension; with "All" in every selection the filtered dataset
\* is the cleaned dataset, rows with an empty dimension cell included.
AllMeansNoRestriction ==
    HasFiltered =>
        /\ filtered_df = SelectSeq(df, LAMBDA r :
              \A d \in Range(DimOrder) : ALL \in Selections[d] \/ r[d] \in Selections[d])
        /\ (\A d \in Range(DimOrder) : ALL \in Selections[d]) => filtered_df = df

MixedAllKeepsEverything ==
    /\ pc = "done"
    /\ \A d \in Range(DimOrder) : ALL \in Selections[d]
    /\ \E r \in Range(df) : r.customerregion \notin regions
    /\ \E r \in Range(df) : IsNull(r.label)
    /\ regions # {ALL}
    /\ filtered_df = df

\* C4: an empty selection on a dimension matches no row: the filtered dataset
\* is empty and the run ends with the warning, nothing rendered after it;
\* the selection ["All"] on every dimension keeps every row.
EmptySelectionMatchesNothing ==
    HasFiltered =>
        /\ (\E d \in Range(DimOrder) : Selections[d] = {}) =>
              /\ filtered_df = <<>>
              /\ pc \in {"empty_check", "stopped"}
              /\ pc = "stopped" => ui[Len(ui)].kind = "warning_no_data"
        /\ (\A d \in Range(DimOrder) : Selections[d] = {ALL}) => filtered_df = df

EmptySelectionWarned ==
    /\ pc = "stopped"
    /\ segments = {}
    /\ regions = {ALL}
    /\ categories = {ALL}
    /\ channels = {ALL}
    /\ df # <<>>
    /\ ui[Len(ui)].kind = "warning_no_data"

\* The names the sheet supplies, letter case and surrounding blanks aside.
Supplied ==
    {Lower(Strip(file.columns[i])) : i \in 1..Len(file.columns)}

\* The required fields no column of the sheet spells.
Absent ==
    required_fields \ Supplied

SchemaChecked ==
    file.exists /\ pc \notin {"page_config", "load", "normalize", "schema"}

\* C5: the run stops with the schema error exactly when a required field is
\* absent after normalization, and the error lists exactly the absent
\* fields, each once, in ascending order.
SchemaErrorListsMissing ==
    SchemaChecked =>
        LET absent == Absent
        IN  /\ Shown("error_missing_fields") <=> absent # {}
            /\ Shown("error_missing_fields") => pc = "stopped"
            /\ \A i \in 1..Len(ui) : ui[i].kind = "error_missing_fields" =>
                  /\ Range(ui[i].detail) = absent
                  /\ Len(ui[i].detail) = Cardinality(absent)
                  /\ \A j \in 1..(Len(ui[i].detail) - 1) :
                        StrLess(ui[i].detail[j], ui[i].detail[j + 1])

SchemaErrorDespiteRespelling ==
    /\ pc = "stopped"
    /\ Shown("error_missing_fields")
    /\ Cardinality(missing_fields) = 2
    /\ \E i \in 1..Len(file.columns) :
          /\ file.columns[i] # Lower(Strip(file.columns[i]))
          /\ Lower(Strip(file.columns[i])) \in required_fields

RECURSIVE SumField(_, _)
SumField(s, field) ==
    IF s = <<>> THEN 0 ELSE Head(s)[field] + SumField(Tail(s), field)

\* C6: the revenue of the groups of every aggregation adds up to the Total
\* Revenue KPI, rows with an empty grouping cell included.
GroupSumsEqualTotal ==
    pc = "done" =>
        /\ SumField(segment_revenue, "purchaseamount") = total_revenue
        /\ SumField(region_revenue, "purchaseamount") = total_revenue
        /\ SumField(sat_rev, "total_revenue") = total_revenue

KeysOf(s) ==
    [i \in 1..Len(s) |-> s[i].key]

KeysObserved(col) ==
    {c \in Range(Column(filtered_df, col)) : ~IsNull(c)}

Ascending(keys) ==
    \A i \in 1..(Len(keys) - 1) : CellLess(keys[i], keys[i + 1])

RenderedKinds ==
    {"metric_total_revenue", "metric_unique_customers", "metric_avg_satisfaction",
     "chart_segment", "chart_region", "chart_scatter", "dataframe"}

FilterKinds ==
    {"sidebar_header", "multiselect"}

NothingComputed ==
    /\ filtered_df = <<>>
    /\ total_revenue = 0
    /\ segment_revenue = <<>>
    /\ region_revenue = <<>>
    /\ sat_rev = <<>>
    /\ table = <<>>

LastShown(kind) ==
    ui # <<>> /\ ui[Len(ui)].kind = kind

\* C8: a missing file stops the run before any filter control and any later
\* block; a missing field stops it before coercion, filtering and rendering;
\* an empty filtered dataset stops it at the warning with no KPI, chart or
\* table; KPIs, charts and the table appear only after the load, the schema
\* check and the non-empty check have all succeeded.
StepsAreGated ==
    /\ ~file.exists =>
          /\ pc \in {"page_config", "load", "stopped"}
          /\ \A i \in 1..Len(ui) : ui[i].kind \notin FilterKinds \cup RenderedKinds
          /\ pc = "stopped" => LastShown("error_file_not_found")
          /\ df = <<>> /\ NothingComputed
    /\ Shown("error_missing_fields") =>
          /\ pc = "stopped"
          /\ LastShown("write_columns")
          /\ \A i \in 1..Len(ui) : ui[i].kind \notin FilterKinds \cup RenderedKinds
          /\ df = WithIndex(file.rows)
          /\ NothingComputed
    /\ Shown("warning_no_data") =>
          /\ pc = "stopped"
          /\ LastShown("warning_no_data")
          /\ \A i \in 1..Len(ui) : ui[i].kind \notin RenderedKinds
          /\ NothingComputed
    /\ (\E i \in 1..Len(ui) : ui[i].kind \in RenderedKinds) =>
          /\ file.exists
          /\ required_fields \subseteq ColumnSet(columns)
          /\ filtered_df # <<>>
          /\ ~Shown("error_file_not_found")
          /\ ~Shown("error_missing_fields")
          /\ ~Shown("warning_no_data")

StoppedAtWarning ==
    /\ pc = "stopped"
    /\ LastShown("warning_no_data")
    /\ df # <<>>
    /\ Len(ui) = 8

\* A cell pd.to_numeric can convert: a number, or a text of digits.
Numeric(c) ==
    c.t = "num" \/ (c.t = "str" /\ c.s # <<>> /\ \A i \in 1..Len(c.s) : IsDigit(c.s[i]))

\* The data-cleaning block has run (the sidebar header follows it).
Cleaned ==
    pc = "sidebar" \/ Shown("sidebar_header")

Untouched ==
    {"label", "customerregion", "productcategory", "retailchannel", "customerid"}

\* C9: after cleaning the dataset holds exactly the rows of the sheet whose
\* purchaseamount converts, in their order, each with its purchaseamount a
\* number, a customersatisfaction or transactiondate that does not convert
\* left empty, and every other cell as in the sheet.
CleaningDropsOnlyNullAmounts ==
    /\ pc = "clean" => df = WithIndex(file.rows)
    /\ Cleaned =>
          /\ {df[i].idx : i \in 1..Len(df)}
                = {k - 1 : k \in {j \in 1..Len(file.rows) : Numeric(file.rows[j].purchaseamount)}}
          /\ \A i, j \in 1..Len(df) : i < j => df[i].idx < df[j].idx
          /\ \A i \in 1..Len(df) :
                LET raw == file.rows[df[i].idx + 1]
                IN  /\ df[i].purchaseamount.t = "num"
                    /\ raw.purchaseamount.t = "num" => df[i].purchaseamount = raw.purchaseamount
                    /\ df[i].customersatisfaction.t \in {"num", "null"}
                    /\ ~Numeric(raw.customersatisfaction) => IsNull(df[i].customersatisfaction)
                    /\ Numeric(raw.customersatisfaction) => ~IsNull(df[i].customersatisfaction)
                    /\ df[i].transactiondate.t \in {"date", "null"}
                    /\ raw.transactiondate.t = "date" => df[i].transactiondate = raw.transactiondate
                    /\ raw.transactiondate = Str(<<"x">>) => IsNull(df[i].transactiondate)
                    /\ \A col \in Untouched : df[i][col] = raw[col]

KeptWithNulls ==
    /\ pc = "sidebar"
    /\ Len(df) = 1
    /\ Len(file.rows) = 2
    /\ IsNull(df[1].customersatisfaction)
    /\ IsNull(df[1].transactiondate)
    /\ file.rows[df[1].idx + 1].transactiondate = Str(<<"x">>)

WidgetMade(d) ==
    options[d] # <<>>

\* C10: for every dataset no option list fails to be built, and each one is
\* "All" followed by the distinct non-empty values of its column, ascending,
\* each once.
OptionsAreAllThenSortedValues ==
    /\ pc # "crashed"
    /\ \A d \in Range(DimOrder) : WidgetMade(d) =>
          /\ Head(options[d]) = ALL
          /\ Range(Tail(options[d])) = {c \in Range(Column(df, d)) : ~IsNull(c)}
          /\ Ascending(Tail(options[d]))

====
